---- MODULE Spec2Model ----
(***************************************************************************)
(* A model of extract_keyphrases.py: the text normalizer, the document     *)
(* tree walker, the document summarizer, the per-document batch loop of    *)
(* main() and the phrase reconciler deduplicate_keyphrases().              *)
(*                                                                         *)
(* Python strings are TLA+ strings (sequences of characters); a character  *)
(* is a string of length one.                                              *)
(***************************************************************************)
EXTENDS Integers, Sequences, FiniteSets, TLC

(* ------------------------------------------------------------------ *)
(* Bounds of the model                                                  *)
(* ------------------------------------------------------------------ *)
MaxPhrases == 4      \* longest input sequence handed to the reconciler
MaxTarget == 3       \* largest target_count tried on the reconciler
MaxDocs == 3         \* most files a batch run finds
TreeHeight == 2      \* deepest nesting of the trees handed to the walker
MaxWidth == 2        \* most entries of a mapping or a sequence in those trees
MaxDepth == 3        \* largest max_depth tried on the walker
MaxNegChars == 3     \* max_chars is tried from -MaxNegChars ...
MaxSmallChars == 60  \* ... up to MaxSmallChars, and at its default

VARIABLES
    all_phrases,     \* reconciler: the argument all_phrases
    target_count,    \* reconciler: the argument target_count
    normalized,      \* reconciler: the accumulator after the merge loop
    seen_normalized, \* reconciler: the keys emitted
    result,          \* reconciler: the list returned
    rpc,             \* reconciler: "call" before the call, "done" after it
    pc,              \* main: "loop", "dedup", "save", "done" or "crashed"
    n_files,         \* main: len(json_files)
    i,               \* main: the number of files the loop has been through
    responses,       \* main: what process_file met for each file so far
    all_keyphrases,  \* main: all_keyphrases
    results_by_file, \* main: results_by_file
    stats_by_type,   \* main: stats_by_type
    final_keyphrases, \* main: final_keyphrases
    output_data,     \* main: the report written to OUTPUT_FILE
    data,            \* walker: the argument data
    max_depth,       \* walker: the argument max_depth
    text,            \* walker: the string returned
    wpc,             \* walker: "call" before the call, "done" after it
    filepath,        \* summarizer: the argument filepath
    content,         \* summarizer: the argument content
    max_chars,       \* summarizer: the argument max_chars
    full_summary,    \* summarizer: the text assembled before truncation
    summary,         \* summarizer: the string returned
    spc              \* summarizer: "call" before the call, "done" after it

rvars == <<all_phrases, target_count, normalized, seen_normalized, result, rpc>>

bvars == <<pc, n_files, i, responses, all_keyphrases, results_by_file, stats_by_type,
           final_keyphrases, output_data>>

wvars == <<data, max_depth, text, wpc>>

svars == <<filepath, content, max_chars, full_summary, summary, spc>>

vars == <<rvars, bvars, wvars, svars>>

(* ------------------------------------------------------------------ *)
(* Characters and strings                                               *)
(* ------------------------------------------------------------------ *)
Ch(s, n) == SubSeq(s, n, n)

\* The characters the model uses, in code point order (Python compares
\* strings by code point).
CodeOrder == "\n ,-./0123456789:<>ABCDEFGHIJKLMNOPQRSTUVWXYZ[]_abcdefghijklmnopqrstuvwxyz"

UpperCase == "ABCDEFGHIJKLMNOPQRSTUVWXYZ"

LowerCase == "abcdefghijklmnopqrstuvwxyz"

IndexIn(c, s) == CHOOSE n \in 1..Len(s) : Ch(s, n) = c

CodePoint == [c \in {Ch(CodeOrder, n) : n \in 1..Len(CodeOrder)} |-> IndexIn(c, CodeOrder)]

Ord(c) == CodePoint[c]

ToLower == [c \in {Ch(UpperCase, n) : n \in 1..Len(UpperCase)} |->
               Ch(LowerCase, IndexIn(c, UpperCase))]

IsUpper(c) == c \in DOMAIN ToLower

IsSpace(c) == c = " " \/ c = "\n"

\* str.lower()
RECURSIVE str_lower(_)
str_lower(s) ==
    IF Len(s) = 0 THEN ""
    ELSE (IF IsUpper(Ch(s, 1)) THEN ToLower[Ch(s, 1)] ELSE Ch(s, 1))
         \o str_lower(SubSeq(s, 2, Len(s)))

RECURSIVE str_lstrip(_)
str_lstrip(s) ==
    IF Len(s) > 0 /\ IsSpace(Ch(s, 1)) THEN str_lstrip(SubSeq(s, 2, Len(s))) ELSE s

RECURSIVE str_rstrip(_)
str_rstrip(s) ==
    IF Len(s) > 0 /\ IsSpace(Ch(s, Len(s))) THEN str_rstrip(SubSeq(s, 1, Len(s) - 1)) ELSE s

\* str.strip()
str_strip(s) == str_rstrip(str_lstrip(s))

\* str.endswith(suffix)
str_endswith(s, suffix) ==
    Len(s) >= Len(suffix) /\ SubSeq(s, Len(s) - Len(suffix) + 1, Len(s)) = suffix

\* a < b on Python strings
RECURSIVE str_less(_, _)
str_less(a, b) ==
    IF Len(b) = 0 THEN FALSE
    ELSE IF Len(a) = 0 THEN TRUE
    ELSE IF Ch(a, 1) = Ch(b, 1) THEN str_less(SubSeq(a, 2, Len(a)), SubSeq(b, 2, Len(b)))
    ELSE Ord(Ch(a, 1)) < Ord(Ch(b, 1))

(* ------------------------------------------------------------------ *)
(* Dictionaries: a dict whose iteration order is not observed is a      *)
(* function on its key set.                                             *)
(* ------------------------------------------------------------------ *)
EmptyDict == [k \in {} |-> 0]

DictGet(d, k, default) == IF k \in DOMAIN d THEN d[k] ELSE default

DictSet(d, k, v) == [x \in DOMAIN d \cup {k} |-> IF x = k THEN v ELSE d[x]]

DictPop(d, k) == [x \in DOMAIN d \ {k} |-> d[x]]

(* ------------------------------------------------------------------ *)
(* deduplicate_keyphrases                                               *)
(* ------------------------------------------------------------------ *)

\* Counter(all_phrases): the distinct phrases in first-seen order, each
\* with its number of occurrences.
RECURSIVE CounterKeys(_, _)
CounterKeys(phrases, acc) ==
    IF Len(phrases) = 0 THEN acc
    ELSE CounterKeys(Tail(phrases),
                     IF \E j \in 1..Len(acc) : acc[j] = Head(phrases)
                     THEN acc ELSE Append(acc, Head(phrases)))

Occurrences(phrases, p) == Cardinality({j \in 1..Len(phrases) : phrases[j] = p})

Counter(phrases) ==
    LET keys == CounterKeys(phrases, <<>>)
    IN  [j \in 1..Len(keys) |-> [phrase |-> keys[j], count |-> Occurrences(phrases, keys[j])]]

\* norm_key = phrase.lower().strip()
norm_key_of(phrase) == str_strip(str_lower(phrase))

\* The body of the merge loop, for one (phrase, count) of the Counter.
MergeStep(acc, phrase, count) ==
    LET norm_key == norm_key_of(phrase)
        singular == SubSeq(norm_key, 1, Len(norm_key) - 1)
    IN  IF str_endswith(norm_key, "s") /\ singular \in DOMAIN acc
        THEN \* keep plural, add count: get, then pop, then assign
             DictSet(DictPop(acc, singular), norm_key,
                     DictGet(acc, norm_key, 0) + count + acc[singular])
        ELSE IF (norm_key \o "s") \in DOMAIN acc
        THEN \* plural exists, add to it
             DictSet(acc, norm_key \o "s", acc[norm_key \o "s"] + count)
        ELSE DictSet(acc, norm_key, DictGet(acc, norm_key, 0) + count)

RECURSIVE MergeLoop(_, _, _)
MergeLoop(phrase_counts, j, acc) ==
    IF j > Len(phrase_counts) THEN acc
    ELSE MergeLoop(phrase_counts, j + 1,
                   MergeStep(acc, phrase_counts[j].phrase, phrase_counts[j].count))

\* SortsBefore with the tie broken the other way round.
SortsBeforeTieDescending(acc, a, b) ==
    \/ acc[a] > acc[b]
    \/ acc[a] = acc[b] /\ str_less(b, a)

\* The sort key (-x[1], x[0]) of sorted(): a comes before b.
SortsBefore(acc, a, b) ==
    \/ acc[a] > acc[b]
    \/ acc[a] = acc[b] /\ str_less(a, b)

RECURSIVE SortedKeys(_, _)
SortedKeys(acc, keys) ==
    IF keys = {} THEN <<>>
    ELSE LET first == CHOOSE a \in keys : \A b \in keys \ {a} : SortsBefore(acc, a, b)
         IN  <<first>> \o SortedKeys(acc, keys \ {first})

sorted_phrases(acc) == SortedKeys(acc, DOMAIN acc)

\* The inner for/else: the first original whose normalized form is the
\* key, or the key itself when there is none.
HasOriginal(phrases, key) == \E j \in 1..Len(phrases) : norm_key_of(phrases[j]) = key

\* FindOriginal comparing orig.lower() with the key, the strip() left out.
FindOriginalNoStrip(phrases, key) ==
    IF \E j \in 1..Len(phrases) : str_lower(phrases[j]) = key
    THEN phrases[CHOOSE j \in 1..Len(phrases) :
                    /\ str_lower(phrases[j]) = key
                    /\ \A h \in 1..(j - 1) : str_lower(phrases[h]) # key]
    ELSE key

FindOriginal(phrases, key) ==
    IF HasOriginal(phrases, key)
    THEN phrases[CHOOSE j \in 1..Len(phrases) :
                    /\ norm_key_of(phrases[j]) = key
                    /\ \A h \in 1..(j - 1) : norm_key_of(phrases[h]) # key]
    ELSE key

\* The emitting loop: append, then test len(result) >= target_count.
RECURSIVE EmitLoop(_, _, _, _, _)
EmitLoop(phrases, sorted, j, target, st) ==
    IF j > Len(sorted) THEN st
    ELSE LET phrase == sorted[j]
             st2 == IF phrase \notin st.seen
                    THEN [result |-> Append(st.result, FindOriginal(phrases, phrase)),
                          seen |-> st.seen \cup {phrase}]
                    ELSE st
         IN  IF Len(st2.result) >= target THEN st2
             ELSE EmitLoop(phrases, sorted, j + 1, target, st2)

\* The whole function, with the locals the claims speak of.
Dedup(phrases, target) ==
    LET acc == MergeLoop(Counter(phrases), 1, EmptyDict)
        st == EmitLoop(phrases, sorted_phrases(acc), 1, target,
                       [result |-> <<>>, seen |-> {}])
    IN  [normalized |-> acc, seen_normalized |-> st.seen, result |-> st.result]

deduplicate_keyphrases(phrases, target) == Dedup(phrases, target).result

\* The variables of a specification that does not use them.
ReconcileIdle ==
    /\ all_phrases = <<>>
    /\ target_count = 0
    /\ normalized = EmptyDict
    /\ seen_normalized = {}
    /\ result = <<>>
    /\ rpc = "idle"

BatchIdle ==
    /\ pc = "idle"
    /\ n_files = 0
    /\ i = 0
    /\ responses = <<>>
    /\ all_keyphrases = <<>>
    /\ results_by_file = <<>>
    /\ stats_by_type = EmptyDict
    /\ final_keyphrases = <<>>
    /\ output_data = <<>>

WalkerIdle ==
    /\ data = <<>>
    /\ max_depth = 0
    /\ text = ""
    /\ wpc = "idle"

SummaryIdle ==
    /\ filepath = ""
    /\ content = <<>>
    /\ max_chars = 0
    /\ full_summary = ""
    /\ summary = ""
    /\ spc = "idle"

(* ------------------------------------------------------------------ *)
(* The reconciler applied to every bounded input                        *)
(* ------------------------------------------------------------------ *)
Phrases == {"k", " K", "ks", "Ks ", "kss", "r"}

SeqsUpTo(S, n) == UNION {[1..m -> S] : m \in 0..n}

InitReconcile ==
    /\ all_phrases \in SeqsUpTo(Phrases, MaxPhrases)
    /\ target_count \in 0..MaxTarget
    /\ normalized = EmptyDict
    /\ seen_normalized = {}
    /\ result = <<>>
    /\ rpc = "call"
    /\ BatchIdle /\ WalkerIdle /\ SummaryIdle

Reconcile ==
    /\ rpc = "call"
    /\ LET r == Dedup(all_phrases, target_count)
       IN  /\ normalized' = r.normalized
           /\ seen_normalized' = r.seen_normalized
           /\ result' = r.result
    /\ rpc' = "done"
    /\ UNCHANGED <<all_phrases, target_count>>
    /\ UNCHANGED <<bvars, wvars, svars>>

NextReconcile == Reconcile

SpecReconcile == InitReconcile /\ [][NextReconcile]_vars

(* ------------------------------------------------------------------ *)
(* main(): the loop over the files, the reconciliation, the report      *)
(* ------------------------------------------------------------------ *)
TARGET_KEYPHRASE_COUNT == 300

\* JSON values as the loop sees them.  An element of a keyphrases list is
\* a string or something else (a number); the value of "keyphrases" is
\* absent, null, a string or a list; the value of "type" is absent, a
\* string or a list (unhashable).
JStr(s) == [t |-> "str", s |-> s]

JNum == [t |-> "num", s |-> ""]

KpMissing == [t |-> "missing", s |-> "", items |-> <<>>]

KpNull == [t |-> "null", s |-> "", items |-> <<>>]

KpStr(s) == [t |-> "str", s |-> s, items |-> <<>>]

KpList(items) == [t |-> "list", s |-> "", items |-> items]

TypeMissing == [t |-> "missing", s |-> ""]

TypeStr(s) == [t |-> "str", s |-> s]

TypeList == [t |-> "list", s |-> ""]

\* What process_file can meet for one file: json.load fails, call_llm
\* fails, call_llm returns something that is no dict, or it returns a dict.
Raised(kind) == [kind |-> kind, keyphrases |-> KpMissing, type |-> TypeMissing]

Returned(kp, ty) == [kind |-> "dict", keyphrases |-> kp, type |-> ty]

KeyphraseValues ==
    {KpMissing, KpNull, KpStr("ks"),
     KpList(<<JStr("k")>>), KpList(<<JStr("Ks"), JStr("k")>>), KpList(<<JNum>>)}

TypeValues == {TypeMissing, TypeStr("guide"), TypeList}

Responses ==
    {Raised("ParseError"), Raised("ExtractionError"), Raised("NotADict")}
    \cup {Returned(kp, ty) : kp \in KeyphraseValues, ty \in TypeValues}

\* An entry of results_by_file.
OkEntry(ty, kp) == [kind |-> "ok", type |-> ty, keyphrases |-> kp, error |-> ""]

ErrorEntry(e) == [kind |-> "error", type |-> TypeMissing, keyphrases |-> KpMissing, error |-> e]

\* list.extend(keyphrases): a list gives its elements, a string its
\* characters; len(keyphrases).
RECURSIVE CharsOf(_)
CharsOf(s) == IF Len(s) = 0 THEN <<>> ELSE <<JStr(Ch(s, 1))>> \o CharsOf(SubSeq(s, 2, Len(s)))

ExtendItems(kp) == IF kp.t = "str" THEN CharsOf(kp.s) ELSE kp.items

LenOf(kp) == IF kp.t = "str" THEN Len(kp.s) ELSE Len(kp.items)

\* The except clause, recording nothing.
ExceptClausePass(st, path, e) == st

\* except Exception as e: results_by_file[path] = {"error": str(e)}
ExceptClause(st, path, e) == [st EXCEPT !.results = DictSet(st.results, path, ErrorEntry(e))]

\* One iteration of the loop for the file `path` and what process_file
\* met, from the accumulators st = [all, results, stats].
LoopBody(resp, path, st) ==
    IF resp.kind # "dict"
    THEN \* process_file raised, or result.get raised
         ExceptClause(st, path, resp.kind)
    ELSE LET keyphrases == IF resp.keyphrases.t = "missing" THEN KpList(<<>>)
                           ELSE resp.keyphrases
             doc_type == IF resp.type.t = "missing" THEN TypeStr("unknown") ELSE resp.type
         IN  IF keyphrases.t = "null"
             THEN \* extend(None) raises before anything is changed
                  ExceptClause(st, path, "TypeError")
             ELSE LET extended == [st EXCEPT !.all = st.all \o ExtendItems(keyphrases)]
                      entered == [extended EXCEPT !.results =
                                      DictSet(st.results, path, OkEntry(doc_type, keyphrases))]
                  IN  IF doc_type.t = "list"
                      THEN \* stats_by_type[doc_type] raises after the extend and
                           \* the entry: the except clause overwrites the entry
                           ExceptClause(entered, path, "TypeError")
                      ELSE [entered EXCEPT !.stats =
                                DictSet(st.stats, doc_type.s,
                                        DictGet(st.stats, doc_type.s, 0) + LenOf(keyphrases))]

\* deduplicate_keyphrases raises on an element that is no string
\* (phrase.lower()), and nothing in main catches it.
DedupRaises(all) == \E j \in 1..Len(all) : all[j].t # "str"

StringsOf(all) == [j \in 1..Len(all) |-> all[j].s]

InitialStats == [t \in {"api_reference", "guide", "solution", "product_overview"} |-> 0]

Init ==
    /\ pc = "loop"
    /\ n_files \in 0..MaxDocs
    /\ i = 0
    /\ responses = <<>>
    /\ all_keyphrases = <<>>
    /\ results_by_file = <<>>
    /\ stats_by_type = InitialStats
    /\ final_keyphrases = <<>>
    /\ output_data = <<>>
    /\ ReconcileIdle /\ WalkerIdle /\ SummaryIdle

ProcessNextFile ==
    /\ pc = "loop"
    /\ i < n_files
    /\ \E resp \in Responses :
         LET st == LoopBody(resp, i + 1,
                            [all |-> all_keyphrases, results |-> results_by_file,
                             stats |-> stats_by_type])
         IN  /\ responses' = Append(responses, resp)
             /\ all_keyphrases' = st.all
             /\ results_by_file' = st.results
             /\ stats_by_type' = st.stats
    /\ i' = i + 1
    /\ UNCHANGED <<pc, n_files, final_keyphrases, output_data>>
    /\ UNCHANGED <<rvars, wvars, svars>>

Deduplicate ==
    /\ pc = "loop"
    /\ i = n_files
    /\ IF DedupRaises(all_keyphrases)
       THEN /\ pc' = "crashed"
            /\ UNCHANGED final_keyphrases
       ELSE /\ pc' = "save"
            /\ final_keyphrases' =
                   deduplicate_keyphrases(StringsOf(all_keyphrases), TARGET_KEYPHRASE_COUNT)
    /\ UNCHANGED <<n_files, i, responses, all_keyphrases, results_by_file, stats_by_type,
                   output_data>>
    /\ UNCHANGED <<rvars, wvars, svars>>

SaveResults ==
    /\ pc = "save"
    /\ output_data' = <<[total_files_processed |-> n_files,
                         total_keyphrases_extracted |-> Len(all_keyphrases),
                         final_unique_keyphrases |-> Len(final_keyphrases),
                         by_type |-> stats_by_type,
                         keyphrases |-> final_keyphrases,
                         by_file |-> results_by_file]>>
    /\ pc' = "done"
    /\ UNCHANGED <<n_files, i, responses, all_keyphrases, results_by_file, stats_by_type,
                   final_keyphrases>>
    /\ UNCHANGED <<rvars, wvars, svars>>

Next == ProcessNextFile \/ Deduplicate \/ SaveResults

Spec == Init /\ [][Next]_vars

(* ------------------------------------------------------------------ *)
(* strip_html_tags and extract_text_content                             *)
(* ------------------------------------------------------------------ *)

\* A parsed JSON value: a string, another scalar, a mapping (its entries
\* in the order of the file) or a sequence.
Str(s) == [t |-> "str", s |-> s, kv |-> <<>>, items |-> <<>>]

Num == [t |-> "num", s |-> "", kv |-> <<>>, items |-> <<>>]

Dict(kv) == [t |-> "dict", s |-> "", kv |-> kv, items |-> <<>>]

List(items) == [t |-> "list", s |-> "", kv |-> <<>>, items |-> items]

Entry(k, v) == [k |-> k, v |-> v]

\* key in d, d[key]
Has(d, key) == \E n \in 1..Len(d.kv) : d.kv[n].k = key

Get(d, key) == d.kv[CHOOSE n \in 1..Len(d.kv) : d.kv[n].k = key].v

IsContainer(v) == v.t = "dict" \/ v.t = "list"

\* re.sub(r'<[^>]+>', ' ', text): a "<", at least one character that is
\* not ">", and the next ">".
FirstGt(s) ==
    IF \E n \in 2..Len(s) : Ch(s, n) = ">"
    THEN CHOOSE n \in 2..Len(s) : Ch(s, n) = ">" /\ \A m \in 2..(n - 1) : Ch(s, m) # ">"
    ELSE 0

RECURSIVE SubTags(_)
SubTags(s) ==
    IF Len(s) = 0 THEN ""
    ELSE IF Ch(s, 1) = "<" /\ FirstGt(s) >= 3
         THEN " " \o SubTags(SubSeq(s, FirstGt(s) + 1, Len(s)))
         ELSE Ch(s, 1) \o SubTags(SubSeq(s, 2, Len(s)))

\* re.sub(r'\s+', ' ', clean)
RECURSIVE SubSpaces(_)
SubSpaces(s) ==
    IF Len(s) = 0 THEN ""
    ELSE IF IsSpace(Ch(s, 1))
         THEN " " \o SubSpaces(str_lstrip(s))
         ELSE Ch(s, 1) \o SubSpaces(SubSeq(s, 2, Len(s)))

strip_html_tags(s) == IF Len(s) = 0 THEN "" ELSE str_strip(SubSpaces(SubTags(s)))

\* sep.join(filter(None, texts))
RECURSIVE JoinNonEmpty(_, _)
JoinNonEmpty(texts, sep) ==
    IF Len(texts) = 0 THEN ""
    ELSE LET rest == JoinNonEmpty(Tail(texts), sep)
         IN  IF Head(texts) = "" THEN rest
             ELSE IF rest = "" THEN Head(texts)
             ELSE Head(texts) \o sep \o rest

priority_keys ==
    <<"header", "pageTitleSuffix", "introductionHeader", "introductionBodyText",
      "useCaseHeader", "useCaseBodyText", "useCaseEndpoint", "useCaseMethod",
      "sectionHeader", "bodyText", "subSectionHeader",
      "parameter", "bodyText", "details">>

IsPriorityKey(key) == \E n \in 1..Len(priority_keys) : priority_keys[n] = key

\* A text that is not appended is the empty text here: the join filters
\* the empty texts out.
RECURSIVE extract_text_content(_, _)
extract_text_content(d, depth) ==
    IF depth <= 0 THEN ""
    ELSE LET priority_texts ==
                 [n \in 1..Len(priority_keys) |->
                     IF ~(d.t = "dict" /\ Has(d, priority_keys[n])) THEN ""
                     ELSE LET v == Get(d, priority_keys[n])
                          IN  IF v.t = "str" THEN strip_html_tags(v.s)
                              ELSE IF IsContainer(v) THEN extract_text_content(v, depth - 1)
                              ELSE ""]
             other_texts ==
                 [n \in 1..Len(d.kv) |->
                     IF ~IsPriorityKey(d.kv[n].k) /\ IsContainer(d.kv[n].v)
                     THEN extract_text_content(d.kv[n].v, depth - 1)
                     ELSE ""]
             item_texts ==
                 [n \in 1..Len(d.items) |-> extract_text_content(d.items[n], depth - 1)]
         IN  JoinNonEmpty(IF d.t = "dict" THEN priority_texts \o other_texts
                          ELSE IF d.t = "list" THEN item_texts
                          ELSE <<>>, " ")

\* The walker applied to every bounded tree.
Leaves == {Str("a"), Str("<i>b </i>"), Num}

TreeKeys == {"header", "title"}

SeqsOver(S) == UNION {[1..m -> S] : m \in 0..MaxWidth}

DistinctKeys(kv) == \A m, n \in 1..Len(kv) : m # n => kv[m].k # kv[n].k

RECURSIVE TreesOfHeight(_)
TreesOfHeight(h) ==
    IF h = 0 THEN Leaves
    ELSE LET below == TreesOfHeight(h - 1)
             entries == {Entry(k, v) : k \in TreeKeys, v \in below}
         IN  below
             \cup {Dict(kv) : kv \in {x \in SeqsOver(entries) : DistinctKeys(x)}}
             \cup {List(items) : items \in SeqsOver(below)}

Documents == {d \in TreesOfHeight(TreeHeight) : IsContainer(d)}

InitWalker ==
    /\ data \in Documents
    /\ max_depth \in 0..MaxDepth
    /\ text = ""
    /\ wpc = "call"
    /\ ReconcileIdle /\ BatchIdle /\ SummaryIdle

Walk ==
    /\ wpc = "call"
    /\ text' = extract_text_content(data, max_depth)
    /\ wpc' = "done"
    /\ UNCHANGED <<data, max_depth>>
    /\ UNCHANGED <<rvars, bvars, svars>>

NextWalker == Walk

SpecWalker == InitWalker /\ [][NextWalker]_vars

(* ------------------------------------------------------------------ *)
(* detect_document_type and prepare_document_summary                    *)
(* ------------------------------------------------------------------ *)
Min(a, b) == IF a < b THEN a ELSE b

Max(a, b) == IF a > b THEN a ELSE b

\* sub in s, for a sub that is not empty
str_contains(s, sub) ==
    \E n \in 1..(Len(s) - Len(sub) + 1) : SubSeq(s, n, n + Len(sub) - 1) = sub

str_startswith(s, prefix) == Len(s) >= Len(prefix) /\ SubSeq(s, 1, Len(prefix)) = prefix

\* s[:n], of a string or a list: a negative n counts from the end
SliceTo(s, n) ==
    IF n >= 0 THEN SubSeq(s, 1, Min(n, Len(s))) ELSE SubSeq(s, 1, Max(Len(s) + n, 0))

\* sep.join(parts)
RECURSIVE Join(_, _)
Join(parts, sep) ==
    IF Len(parts) = 0 THEN ""
    ELSE IF Len(parts) = 1 THEN Head(parts)
    ELSE Head(parts) \o sep \o Join(Tail(parts), sep)

\* The lists a loop appends, one after the other.
RECURSIVE Flatten(_)
Flatten(lists) == IF Len(lists) = 0 THEN <<>> ELSE Head(lists) \o Flatten(Tail(lists))

\* os.path.basename
RECURSIVE basename(_)
basename(path) ==
    IF str_contains(path, "/")
    THEN basename(SubSeq(path, IndexIn("/", path) + 1, Len(path)))
    ELSE path

\* d.get(key, "") and d[key] for the string values the summary formats
GetText(d, key) == IF Has(d, key) THEN Get(d, key).s ELSE ""

detect_document_type(doc, path) ==
    LET filepath_lower == str_lower(path)
    IN  IF \/ str_contains(filepath_lower, "api-reference")
           \/ str_contains(filepath_lower, "api reference")
           \/ str_contains(filepath_lower, "apireference")
        THEN "api_reference"
        ELSE IF str_contains(filepath_lower, "guides") \/ str_contains(filepath_lower, "guide")
        THEN "guide"
        ELSE IF str_contains(filepath_lower, "solution")
        THEN "solution"
        ELSE IF \/ str_contains(filepath_lower, "api-overview")
                \/ str_contains(filepath_lower, "product-overview")
                \/ str_contains(filepath_lower, "productoverview")
        THEN "product_overview"
        ELSE IF Has(doc, "APIReference") THEN "api_reference"
        ELSE IF Has(doc, "gatewayGuides") THEN "guide"
        ELSE "product_overview"

\* The field names of one use case: row["parameter"] of every row of
\* every request field table.
UseCaseFields(uc) ==
    IF ~Has(uc, "useCaseRequestFields") THEN <<>>
    ELSE LET rfs == Get(uc, "useCaseRequestFields").items
         IN  Flatten([n \in 1..Len(rfs) |->
                 IF Has(rfs[n], "basicsSubsectionTable")
                    /\ Has(Get(rfs[n], "basicsSubsectionTable"), "row")
                 THEN LET rows == Get(Get(rfs[n], "basicsSubsectionTable"), "row").items
                      IN  Flatten([m \in 1..Len(rows) |->
                              IF Has(rows[m], "parameter")
                              THEN <<Get(rows[m], "parameter").s>> ELSE <<>>])
                 ELSE <<>>])

UseCaseParts(uc) ==
    LET uc_body == SliceTo(strip_html_tags(GetText(uc, "useCaseBodyText")), 200)
        fields == UseCaseFields(uc)
    IN  <<"- " \o GetText(uc, "useCaseMethod") \o " " \o GetText(uc, "useCaseHeader")
              \o ": " \o GetText(uc, "useCaseEndpoint")>>
        \o (IF uc_body # "" THEN <<"  " \o uc_body>> ELSE <<>>)
        \o (IF fields # <<>> THEN <<"  Fields: " \o Join(SliceTo(fields, 15), ", ")>> ELSE <<>>)

ApiReferenceParts(api_ref) ==
    LET header_part ==
            IF Has(api_ref, "header") THEN <<"API Name: " \o Get(api_ref, "header").s>>
            ELSE <<>>
        intro == Get(api_ref, "introSection")
        intro_parts ==
            IF ~Has(api_ref, "introSection") THEN <<>>
            ELSE (IF Has(intro, "introductionBodyText")
                  THEN <<"Introduction: "
                         \o SliceTo(strip_html_tags(Get(intro, "introductionBodyText").s), 500)>>
                  ELSE <<>>)
                 \o (IF Has(intro, "codeSnippetsIntroduction")
                        /\ Has(Get(intro, "codeSnippetsIntroduction"), "code")
                     THEN <<"Endpoints: "
                            \o strip_html_tags(Get(Get(intro, "codeSnippetsIntroduction"), "code").s)>>
                     ELSE <<>>)
        scope_parts ==
            IF Has(api_ref, "basicsSection")
               /\ Has(Get(api_ref, "basicsSection"), "basicsSubsections")
            THEN LET subs == Get(Get(api_ref, "basicsSection"), "basicsSubsections").items
                 IN  Flatten([n \in 1..Len(subs) |->
                         IF str_contains(GetText(subs[n], "basicsSubsectionHeader"), "Scope")
                         THEN <<"Scopes: "
                                \o strip_html_tags(GetText(subs[n], "basicsSubsectionBodyText"))>>
                         ELSE <<>>])
            ELSE <<>>
        use_case_parts ==
            IF ~Has(api_ref, "useCaseSections") THEN <<>>
            ELSE LET ucs == Get(api_ref, "useCaseSections").kv
                 IN  <<"\nUse Cases:">>
                     \o Flatten([n \in 1..Len(ucs) |->
                            IF ucs[n].v.t = "dict" THEN UseCaseParts(ucs[n].v) ELSE <<>>])
    IN  header_part \o intro_parts \o scope_parts \o use_case_parts

\* sorted(guide.keys())
RECURSIVE SortedStrings(_)
SortedStrings(keys) ==
    IF keys = {} THEN <<>>
    ELSE LET first == CHOOSE a \in keys : \A b \in keys \ {a} : str_less(a, b)
         IN  <<first>> \o SortedStrings(keys \ {first})

SectionParts(section) ==
    (IF Has(section, "sectionHeader")
     THEN <<"\nSection: " \o Get(section, "sectionHeader").s>> ELSE <<>>)
    \o (IF ~Has(section, "contentBody") THEN <<>>
        ELSE LET body_items == SliceTo(Get(section, "contentBody").items, 3)
             IN  Flatten([n \in 1..Len(body_items) |->
                     IF body_items[n].t # "dict" THEN <<>>
                     ELSE (IF Has(body_items[n], "subSectionHeader")
                           THEN <<"- " \o Get(body_items[n], "subSectionHeader").s>> ELSE <<>>)
                          \o (IF Has(body_items[n], "bodyText")
                              THEN <<"  " \o SliceTo(strip_html_tags(
                                                 Get(body_items[n], "bodyText").s), 200)>>
                              ELSE <<>>)]))

GuideParts(guide) ==
    LET hs == Get(guide, "headerSection")
        header_parts ==
            IF ~Has(guide, "headerSection") THEN <<>>
            ELSE <<"Guide: " \o GetText(hs, "header")>>
                 \o (IF Has(hs, "introText")
                     THEN <<"Intro: " \o SliceTo(strip_html_tags(Get(hs, "introText").s), 500)>>
                     ELSE <<>>)
        keys == SortedStrings({guide.kv[n].k : n \in 1..Len(guide.kv)})
    IN  header_parts
        \o Flatten([n \in 1..Len(keys) |->
               IF str_startswith(keys[n], "contentSection")
               THEN SectionParts(Get(guide, keys[n])) ELSE <<>>])

TruncationMarker == "...[truncated]"

\* "Join and truncate": full_summary[:max_chars] + "...[truncated]"
Truncate(full, limit) ==
    IF Len(full) > limit THEN SliceTo(full, limit) \o TruncationMarker ELSE full

\* The function with its local full_summary, as it is before "Join and
\* truncate".
Summarize(path, doc, limit) ==
    LET doc_type == detect_document_type(doc, path)
        filename == basename(path)
        summary_parts ==
            <<"Document: " \o filename, "Type: " \o doc_type, "">>
            \o (IF doc_type = "api_reference" /\ Has(doc, "APIReference")
                THEN ApiReferenceParts(Get(doc, "APIReference"))
                ELSE IF doc_type = "guide" /\ Has(doc, "gatewayGuides")
                THEN GuideParts(Get(doc, "gatewayGuides"))
                ELSE <<>>)
        full == Join(summary_parts, "\n")
    IN  [full_summary |-> full, summary |-> Truncate(full, limit)]

prepare_document_summary(path, doc, limit) == Summarize(path, doc, limit).summary

\* The summarizer applied to a few documents under every bounded max_chars.
ApiDocument ==
    Dict(<<Entry("APIReference", Dict(<<
        Entry("header", Str("Pay")),
        Entry("introSection", Dict(<<
            Entry("introductionBodyText", Str("<p>Send money</p>")),
            Entry("codeSnippetsIntroduction", Dict(<<Entry("code", Str("POST /pay"))>>))>>)),
        Entry("basicsSection", Dict(<<Entry("basicsSubsections", List(<<
            Dict(<<Entry("basicsSubsectionHeader", Str("Scopes")),
                   Entry("basicsSubsectionBodyText", Str("PAY-Read"))>>),
            Dict(<<Entry("basicsSubsectionHeader", Str("Errors"))>>)>>))>>)),
        Entry("useCaseSections", Dict(<<
            Entry("useCase1", Dict(<<
                Entry("useCaseHeader", Str("Create")),
                Entry("useCaseMethod", Str("POST")),
                Entry("useCaseEndpoint", Str("/pay")),
                Entry("useCaseBodyText", Str("<b>Make</b> it")),
                Entry("useCaseRequestFields", List(<<
                    Dict(<<Entry("basicsSubsectionTable", Dict(<<Entry("row", List(<<
                        Dict(<<Entry("parameter", Str("amount"))>>),
                        Dict(<<Entry("parameter", Str("uetr"))>>)>>))>>))>>)>>))>>)),
            Entry("note", Str("x"))>>))>>))>>)

GuideItem(h) == Dict(<<Entry("subSectionHeader", Str(h)), Entry("bodyText", Str("<i>do</i> it"))>>)

GuideDocument ==
    Dict(<<Entry("gatewayGuides", Dict(<<
        Entry("headerSection", Dict(<<Entry("header", Str("Hooks")),
                                      Entry("introText", Str("How to"))>>)),
        Entry("contentSection2", Dict(<<Entry("sectionHeader", Str("Run"))>>)),
        Entry("contentSection1", Dict(<<
            Entry("sectionHeader", Str("Setup")),
            Entry("contentBody", List(<<GuideItem("a"), GuideItem("b"), GuideItem("c"),
                                        GuideItem("d")>>))>>))>>))>>)

\* A document whose assembled text ends like the truncation marker.
MarkerDocument == Dict(<<Entry("APIReference", Dict(<<Entry("header", Str("...[truncated]"))>>))>>)

SummaryDocuments == {Dict(<<>>), ApiDocument, GuideDocument, MarkerDocument}

SummaryPaths == {"api-reference/pay.json", "Guides/hooks.json", "solution/s.json", "docs/x.json"}

DefaultMaxChars == 15000

InitSummary ==
    /\ filepath \in SummaryPaths
    /\ content \in SummaryDocuments
    /\ max_chars \in ((0 - MaxNegChars)..MaxSmallChars) \cup {DefaultMaxChars}
    /\ full_summary = ""
    /\ summary = ""
    /\ spc = "call"
    /\ ReconcileIdle /\ BatchIdle /\ WalkerIdle

PrepareSummary ==
    /\ spc = "call"
    /\ LET r == Summarize(filepath, content, max_chars)
       IN  /\ full_summary' = r.full_summary
           /\ summary' = r.summary
    /\ spc' = "done"
    /\ UNCHANGED <<filepath, content, max_chars>>
    /\ UNCHANGED <<rvars, bvars, wvars>>

NextSummary == PrepareSummary

SpecSummary == InitSummary /\ [][NextSummary]_vars

(* ------------------------------------------------------------------ *)
(* Properties of the reconciler (checked under SpecReconcile)           *)
(* ------------------------------------------------------------------ *)
ResultKey(n) == norm_key_of(result[n])

DistinctPhrases == {all_phrases[n] : n \in 1..Len(all_phrases)}

\* C1: no two entries of the returned list have equal lowercased-trimmed
\* forms, and none has the lowercased-trimmed form of another plus a
\* trailing "s", in whatever order the phrases were first seen.
C1_NoCaseOrPluralDuplicates ==
    rpc = "done" =>
        \A m, n \in 1..Len(result) :
            m # n => /\ ResultKey(m) # ResultKey(n)
                     /\ ResultKey(m) # ResultKey(n) \o "s"

\* C2: the returned list has at most target_count entries, for every
\* target_count >= 0.
C2_SizeBound == rpc = "done" => Len(result) <= target_count

InvoiceExample == deduplicate_keyphrases(<<"Invoice", "invoice", "Invoices", "Refund">>, 10)

\* C8: every entry returned is the first element of the input whose
\* lowercased-trimmed form is the key it was emitted for, the keys emitted
\* are keys of the accumulator, the fallback to the bare key is never
\* taken, and reconcile(["Invoice", "invoice", "Invoices", "Refund"], 10)
\* is ["Invoices", "Refund"].
C8_FirstSeenRepresentative ==
    /\ rpc = "done" =>
        /\ seen_normalized = {ResultKey(n) : n \in 1..Len(result)}
        /\ seen_normalized \subseteq DOMAIN normalized
        /\ \A k \in seen_normalized :
               \E m \in 1..Len(all_phrases) : norm_key_of(all_phrases[m]) = k
        /\ \A n \in 1..Len(result) :
               \E m \in 1..Len(all_phrases) :
                   /\ all_phrases[m] = result[n]
                   /\ \A h \in 1..(m - 1) : norm_key_of(all_phrases[h]) # ResultKey(n)
    /\ InvoiceExample = <<"Invoices", "Refund">>

\* C8's case: a singular and a plural were merged, and the group is shown
\* with the first-seen raw plural, which is not its normalized key.
C8_Witness ==
    /\ rpc = "done"
    /\ \E m \in 1..Len(all_phrases) : norm_key_of(all_phrases[m]) = "k"
    /\ "ks" \in DOMAIN normalized /\ normalized["ks"] >= 2
    /\ \E n \in 1..Len(result) : result[n] = "Ks "

\* C9: with target_count at least the number of distinct phrases, when the
\* input holds a phrase of form k and a phrase of form k + "s", no entry
\* returned has the form k.
C9_PluralRepresentsBoth ==
    (rpc = "done" /\ target_count >= Cardinality(DistinctPhrases)) =>
        \A a, b \in 1..Len(all_phrases) :
            norm_key_of(all_phrases[b]) = norm_key_of(all_phrases[a]) \o "s" =>
                \A n \in 1..Len(result) : ResultKey(n) # norm_key_of(all_phrases[a])

\* The ranking of the claim, written out: higher merged count first,
\* equal counts in ascending order of the key.
RanksBefore(a, b) ==
    \/ normalized[a] > normalized[b]
    \/ normalized[a] = normalized[b] /\ a # b /\ ~str_less(b, a)

RECURSIVE SumCounts(_, _)
SumCounts(d, keys) ==
    IF keys = {} THEN 0
    ELSE LET k == CHOOSE x \in keys : TRUE IN d[k] + SumCounts(d, keys \ {k})

\* C10: the returned list is a prefix of the ranking of the merged
\* entries: counts do not increase along it, equal counts come in
\* ascending order of the key, no omitted entry ranks before an emitted
\* one, and the counts are those of the input elements folded together.
C10_RankedPrefix ==
    rpc = "done" =>
        /\ SumCounts(normalized, DOMAIN normalized) = Len(all_phrases)
        /\ \A m, n \in 1..Len(result) : m < n => RanksBefore(ResultKey(m), ResultKey(n))
        /\ \A k \in DOMAIN normalized \ seen_normalized :
               \A n \in 1..Len(result) : RanksBefore(ResultKey(n), k)

\* C10's case: target_count cuts the list between two entries of equal
\* count, after an entry of a higher count.
C10_Witness ==
    /\ rpc = "done"
    /\ Len(result) = 2 /\ target_count = 2
    /\ normalized[ResultKey(1)] > normalized[ResultKey(2)]
    /\ \E k \in DOMAIN normalized \ seen_normalized : normalized[k] = normalized[ResultKey(2)]

(* ------------------------------------------------------------------ *)
(* Properties of the batch loop (checked under Spec)                    *)
(* ------------------------------------------------------------------ *)
Failed(resp) == resp.kind \in {"ParseError", "ExtractionError"}

\* A response the loop body goes through without raising: a list of
\* keyphrases, and a type that is a string or absent.
Succeeded(resp) ==
    /\ resp.kind = "dict"
    /\ resp.keyphrases.t = "list"
    /\ resp.type.t # "list"

ReturnedType(resp) == IF resp.type.t = "missing" THEN TypeStr("unknown") ELSE resp.type

RECURSIVE ReturnedPhrases(_)
ReturnedPhrases(resps) ==
    IF Len(resps) = 0 THEN <<>>
    ELSE (IF Succeeded(Head(resps)) THEN Head(resps).keyphrases.items ELSE <<>>)
         \o ReturnedPhrases(Tail(resps))

\* C3: a file that cannot be parsed or whose extractor call fails does not
\* stop the loop: the loop ends only after the last file, every file gone
\* through has exactly one entry, an error for a failed file and
\* {type, keyphrases} as returned for a file that succeeded, and the
\* accumulated phrases are those returned for the files that succeeded.
C3_FailureIsolation ==
    /\ i <= n_files
    /\ pc # "loop" => i = n_files
    /\ Len(responses) = i
    /\ DOMAIN results_by_file = 1..i
    /\ \A d \in 1..i :
           /\ Failed(responses[d]) => results_by_file[d] = ErrorEntry(responses[d].kind)
           /\ Succeeded(responses[d]) =>
                  results_by_file[d] = OkEntry(ReturnedType(responses[d]), responses[d].keyphrases)
    /\ (\A d \in 1..i : Failed(responses[d]) \/ Succeeded(responses[d])) =>
           all_keyphrases = ReturnedPhrases(responses)

\* C3's case: of three files the second failed, and the first and the
\* third have their entries and their phrases in the report.
C3_Witness ==
    /\ pc = "done"
    /\ n_files = 3
    /\ Succeeded(responses[1]) /\ Failed(responses[2]) /\ Succeeded(responses[3])
    /\ results_by_file[1].kind = "ok" /\ results_by_file[3].kind = "ok"
    /\ results_by_file[2].kind = "error"
    /\ Len(all_keyphrases) = 3

NonConforming(resp) ==
    /\ resp.kind = "dict"
    /\ resp.keyphrases.t # "list"

\* C4: a response whose keyphrases field is missing or is no list is
\* recorded as an error and adds nothing to the accumulated phrases.
C4_NonConformingIsError ==
    /\ \A d \in 1..i : NonConforming(responses[d]) => results_by_file[d].kind = "error"
    /\ (\A d \in 1..i : NonConforming(responses[d])) => all_keyphrases = <<>>

\* C5: no outcome for a file ends the run before the report: the
\* reconciliation never fails.
C5_BatchNeverAborted == pc # "crashed"

\* What the files whose entry is not an error have added: their phrases,
\* in the order of the files, and their counts under their types.
RECURSIVE PhrasesOfOkEntries(_)
PhrasesOfOkEntries(d) ==
    IF d = 0 THEN <<>>
    ELSE PhrasesOfOkEntries(d - 1)
         \o (IF results_by_file[d].kind = "ok"
             THEN ExtendItems(results_by_file[d].keyphrases) ELSE <<>>)

RECURSIVE CountOfOkEntries(_, _)
CountOfOkEntries(d, ty) ==
    IF d = 0 THEN 0
    ELSE CountOfOkEntries(d - 1, ty)
         + (IF results_by_file[d].kind = "ok" /\ results_by_file[d].type.s = ty
            THEN LenOf(results_by_file[d].keyphrases) ELSE 0)

\* C11: a file whose entry is an error has left the accumulated phrases and
\* the statistics as they were before it: after any number of files both
\* hold what the files with a {type, keyphrases} entry added, and nothing
\* else, whatever the extractor returned.
C11_FailedFileLeavesNoTrace ==
    /\ all_keyphrases = PhrasesOfOkEntries(i)
    /\ DOMAIN stats_by_type =
           DOMAIN InitialStats
           \cup {results_by_file[d].type.s : d \in {x \in 1..i : results_by_file[x].kind = "ok"}}
    /\ \A ty \in DOMAIN stats_by_type : stats_by_type[ty] = CountOfOkEntries(i, ty)

(* ------------------------------------------------------------------ *)
(* Properties of the walker (checked under SpecWalker)                  *)
(* ------------------------------------------------------------------ *)

\* All the string content under a node within the depth bound, as the
\* claim has it: under a mapping the priority keys first, then every
\* other key, a string normalized and a mapping or sequence walked one
\* level lower whatever the key; the elements of a sequence in order.
RECURSIVE AllTextWithin(_, _)
AllTextWithin(node, depth) ==
    IF depth <= 0 THEN ""
    ELSE LET TextOf(v) == IF v.t = "str" THEN strip_html_tags(v.s)
                          ELSE IF IsContainer(v) THEN AllTextWithin(v, depth - 1)
                          ELSE ""
             priority_texts ==
                 [n \in 1..Len(priority_keys) |->
                     IF node.t = "dict" /\ Has(node, priority_keys[n])
                     THEN TextOf(Get(node, priority_keys[n])) ELSE ""]
             other_texts ==
                 [n \in 1..Len(node.kv) |->
                     IF IsPriorityKey(node.kv[n].k) THEN "" ELSE TextOf(node.kv[n].v)]
             item_texts == [n \in 1..Len(node.items) |-> TextOf(node.items[n])]
         IN  JoinNonEmpty(IF node.t = "dict" THEN priority_texts \o other_texts
                          ELSE item_texts, " ")

\* C7: with max_depth >= 1 the walker returns all the string content under
\* the node within the depth bound, a string under a key that is not in
\* the priority list included like one under a priority key.
C7_CollectsAllStrings ==
    (wpc = "done" /\ max_depth >= 1) => text = AllTextWithin(data, max_depth)

(* ------------------------------------------------------------------ *)
(* Properties of the summarizer (checked under SpecSummary)             *)
(* ------------------------------------------------------------------ *)

\* C6: for every max_chars, negative ones too, the summary is at most
\* max_chars plus the length of the truncation marker long, and it ends
\* with the marker exactly when the assembled text was longer than
\* max_chars.
C6_SummaryBound ==
    spc = "done" =>
        /\ Len(summary) <= max_chars + Len(TruncationMarker)
        /\ str_endswith(summary, TruncationMarker) <=> Len(full_summary) > max_chars

====
